---- MODULE Spec2Model ----
(***************************************************************************)
(* Package syncutil: OnceOK / Init, a cancelable, de-duplicating,          *)
(* memoizing executor.  Two designs are modelled side by side:             *)
(*   variant = "loop" : the channel-loop design (OnceOK in syncutil.go and *)
(*                      the second Init of unnamed/part_000, line for line *)
(*                      the same code);                                    *)
(*   variant = "flag" : the atomic-flag / wake-token design (the first     *)
(*                      Init of unnamed/part_000).                         *)
(* Every caller p makes one Do call; its private channel errc is named p.  *)
(* An attempt is named after the caller whose fn it runs.                  *)
(***************************************************************************)
EXTENDS Integers, FiniteSets, Sequences, TLC

NumCallers == 3

Procs == 1..NumCallers

\* values and errors, all of one shape so that they compare
Nil == <<"nil", 0>>
Val(a) == <<"val", a>>
Junk(a) == <<"junk", a>>
Fail(a) == <<"fail", a>>
CtxErr(p) == <<"ctx", p>>

\* what a call of caller a's fn may return: (value, error)
FnResults(a) == {<<Val(a), Nil>>, <<Junk(a), Fail(a)>>}

VARIABLES
    variant,    \* which design this handle is
    pc,         \* pc[p]: where caller p's Do call stands
    ctxDone,    \* ctxDone[p]: p's ctx.Done() is closed
    ret,        \* ret[p]: <<value, error>> returned by p's Do
    done,       \* the done channel is closed
    val,        \* the val field
    inited,     \* loop: once has run lazyInit
    looppc,     \* loop: position of the loop goroutine
    pend,       \* loop: the loop's pend map
    busy,       \* loop: the loop's busy flag
    bcastErr,   \* loop: err being sent to pend
    sendc,      \* loop: the channel c of the blocked `c <- err` (0: none)
    state,      \* flag: the state word
    wake,       \* flag: number of tokens in the wake channel
    runpc,      \* flag: runpc[r]: position of the run goroutine started by r
    m,          \* flag: m[r]: the map of run goroutine r
    todo,       \* flag: todo[r]: channels the range loop of r has yet to visit
    cur,        \* flag: cur[r]: the channel of r's blocked `errc <- err` (0: none)
    fnpc,       \* fnpc[a]: position of the goroutine that calls caller a's fn
    fnerr,      \* fnerr[a]: the err fn returned
    fnval,      \* fnval[a]: the value fn returned
    joined,     \* history: the attempt p registered with (0: none)
    owed,       \* history: the error the coordinator had to deliver to p
    early       \* history: when fn of p's attempt returned, p was still in Do
                \*          and p's ctx had fired (kept until p returns)

callerVars == <<pc, ret>>
loopVars == <<inited, looppc, pend, busy, bcastErr, sendc>>
flagVars == <<state, wake, runpc, m, todo, cur>>
fnVars == <<fnpc, fnerr, fnval>>
histVars == <<joined, owed, early>>
vars == <<variant, pc, ctxDone, ret, done, val, inited, looppc, pend, busy,
          bcastErr, sendc, state, wake, runpc, m, todo, cur, fnpc, fnerr, fnval,
          joined, owed, early>>

Init ==
    /\ variant \in {"loop", "flag"}
    /\ pc = [p \in Procs |-> "start"]
    /\ ctxDone = [p \in Procs |-> FALSE]
    /\ ret = [p \in Procs |-> <<Nil, Nil>>]
    /\ done = FALSE
    /\ val = Nil
    /\ inited = FALSE
    /\ looppc = "none"
    /\ pend = {}
    /\ busy = FALSE
    /\ bcastErr = Nil
    /\ sendc = 0
    /\ state = "uninitialized"
    /\ wake = 0
    /\ runpc = [r \in Procs |-> "none"]
    /\ m = [r \in Procs |-> {}]
    /\ todo = [r \in Procs |-> {}]
    /\ cur = [r \in Procs |-> 0]
    /\ fnpc = [a \in Procs |-> "none"]
    /\ fnerr = [a \in Procs |-> Nil]
    /\ fnval = [a \in Procs |-> Nil]
    /\ joined = [p \in Procs |-> 0]
    /\ owed = [p \in Procs |-> Nil]
    /\ early = [p \in Procs |-> FALSE]

\* fn of attempt a has returned
Finished(a) == fnpc[a] \in {"sending", "exited"}

\* Do returns (v, e)
Return(p, v, e) ==
    /\ pc' = [pc EXCEPT ![p] = "returned"]
    /\ ret' = [ret EXCEPT ![p] = <<v, e>>]
    /\ early' = [early EXCEPT ![p] = FALSE]

(***************************************************************************)
(* The caller's context.                                                   *)
(***************************************************************************)
Cancel(p) ==
    /\ pc[p] # "returned"
    /\ ~ctxDone[p]
    /\ ctxDone' = [ctxDone EXCEPT ![p] = TRUE]
    /\ UNCHANGED <<variant, callerVars, done, val, loopVars, flagVars, fnVars,
                   histVars>>

(***************************************************************************)
(* The goroutine that calls fn (both designs).                             *)
(***************************************************************************)
FnCall(a) ==
    /\ fnpc[a] = "spawned"
    /\ fnpc' = [fnpc EXCEPT ![a] = "running"]
    /\ UNCHANGED <<variant, callerVars, ctxDone, done, val, loopVars, flagVars,
                   fnerr, fnval, histVars>>

FnReturn(a) ==
    /\ fnpc[a] = "running"
    /\ \E res \in FnResults(a) :
        /\ val' = res[1]
        /\ fnval' = [fnval EXCEPT ![a] = res[1]]
        /\ fnerr' = [fnerr EXCEPT ![a] = res[2]]
    /\ fnpc' = [fnpc EXCEPT ![a] = "sending"]
    /\ early' = [p \in Procs |->
                   early[p] \/ (joined[p] = a /\ ctxDone[p] /\ pc[p] # "returned")]
    /\ UNCHANGED <<variant, callerVars, ctxDone, done, loopVars, flagVars,
                   joined, owed>>

(***************************************************************************)
(* OnceOK.Do, channel-loop design.                                         *)
(***************************************************************************)
\* `select { case <-o.done: return o.val, nil; default: }`.  The field
\* o.done is read here without synchronization with the write of it in
\* lazyInit (a data race): the read finds the channel, or finds nil, and a
\* nil channel is never ready, so that the default case may be taken also
\* when done is closed.
DoFastPath(p) ==
    /\ variant = "loop"
    /\ pc[p] = "start"
    /\ \/ done /\ Return(p, val, Nil)
       \/ pc' = [pc EXCEPT ![p] = "once"] /\ UNCHANGED <<ret, early>>
    /\ UNCHANGED <<variant, ctxDone, done, val, loopVars, flagVars, fnVars,
                   joined, owed>>

lazyInit(p) ==
    /\ variant = "loop"
    /\ pc[p] = "once"
    /\ IF inited
         THEN UNCHANGED <<inited, looppc>>
         ELSE inited' = TRUE /\ looppc' = "select"
    /\ pc' = [pc EXCEPT ![p] = "register"]
    /\ UNCHANGED <<variant, ret, ctxDone, done, val, pend, busy, bcastErr, sendc,
                   flagVars, fnVars, histVars>>

DoRegisterDone(p) ==
    /\ variant = "loop"
    /\ pc[p] = "register"
    /\ done
    /\ Return(p, val, Nil)
    /\ UNCHANGED <<variant, ctxDone, done, val, loopVars, flagVars, fnVars,
                   joined, owed>>

DoRegisterCtx(p) ==
    /\ variant = "loop"
    /\ pc[p] = "register"
    /\ ctxDone[p]
    /\ Return(p, Nil, CtxErr(p))
    /\ UNCHANGED <<variant, ctxDone, done, val, loopVars, flagVars, fnVars,
                   joined, owed>>

DoAwaitDone(p) ==
    /\ variant = "loop"
    /\ pc[p] = "await"
    /\ done
    /\ Return(p, val, Nil)
    /\ UNCHANGED <<variant, ctxDone, done, val, loopVars, flagVars, fnVars,
                   joined, owed>>

\* faulty variant: the await select has no ctx.Done() case
quitingNever(p) == FALSE

\* faulty variant: the await select gives up without its context having fired
quitingAlways(p) == TRUE

\* `case <-ctx.Done()` of the await select is ready
quiting(p) == ctxDone[p]

DoAwaitCtx(p) ==
    /\ variant = "loop"
    /\ pc[p] = "await"
    /\ quiting(p)
    /\ pc' = [pc EXCEPT ![p] = "unregister"]
    /\ UNCHANGED <<variant, ret, ctxDone, done, val, loopVars, flagVars, fnVars,
                   histVars>>

DoUnregisterDone(p) ==
    /\ variant = "loop"
    /\ pc[p] = "unregister"
    /\ done
    /\ Return(p, val, Nil)
    /\ UNCHANGED <<variant, ctxDone, done, val, loopVars, flagVars, fnVars,
                   joined, owed>>

(***************************************************************************)
(* OnceOK.loop.                                                            *)
(***************************************************************************)
\* the attempt in flight, if any (0: none)
InFlight ==
    IF \E a \in Procs : fnpc[a] \in {"spawned", "running", "sending"}
      THEN CHOOSE a \in Procs : fnpc[a] \in {"spawned", "running", "sending"}
      ELSE 0

\* callers that have registered and have neither returned nor left
Waiting == {p \in Procs : pc[p] \in {"await", "unregister"}}

\* faulty variant: every join starts an attempt: the busy test is dropped
freshAlways(b) == TRUE

\* `if !busy`: this join starts a fresh attempt
fresh(b) == ~b

\* faulty variant: the error test is dropped: every result counts as a success
failedNever(err) == FALSE

\* faulty variant: every result is handled as a failure
failedAlways(err) == TRUE

\* `if err != nil`
failed(err) == err # Nil

\* faulty variant: a leave empties the whole map
removeAll(s, c) == {}

\* faulty variant: a leave deletes nothing
removeNothing(s, c) == s

\* delete(pend, opv.errc)
remove(s, c) == s \ {c}

\* faulty variant: the attempt is given up when its last waiter leaves
busyResetWhenEmpty(b, s) == IF s = {} THEN FALSE ELSE b

\* busy after a leave was handled: the leave branch does not touch it
busyAfterLeave(b, s) == b

\* faulty variant: the failure branch forgets `busy = false`
busyStays == TRUE

\* `busy = false` of the failure branch
busyAfterFailure == FALSE

\* faulty variant: `continue` in place of `return` after close(o.done)
afterCloseContinue == "select"

\* the loop after close(o.done): return
afterClose == "exited"

\* case opv := <-o.opc with opv.join: p's send in the register select is taken
loopJoin(p) ==
    /\ variant = "loop"
    /\ pc[p] = "register"
    /\ looppc = "select"
    /\ IF fresh(busy)
         THEN /\ busy' = TRUE
              /\ fnpc' = [fnpc EXCEPT ![p] = "spawned"]
              /\ joined' = [joined EXCEPT ![p] = p]
         ELSE /\ UNCHANGED <<busy, fnpc>>
              /\ joined' = [joined EXCEPT ![p] = InFlight]
    /\ pend' = pend \cup {p}
    /\ pc' = [pc EXCEPT ![p] = "await"]
    /\ UNCHANGED <<variant, ret, ctxDone, done, val, inited, looppc, bcastErr,
                   sendc, flagVars, fnerr, fnval, owed, early>>

\* case opv := <-o.opc with !opv.join: p's send in the unregister select is taken
loopLeave(p) ==
    /\ variant = "loop"
    /\ pc[p] = "unregister"
    /\ looppc = "select"
    /\ pend' = remove(pend, p)
    /\ busy' = busyAfterLeave(busy, pend')
    /\ Return(p, Nil, CtxErr(p))
    /\ UNCHANGED <<variant, ctxDone, done, val, inited, looppc, bcastErr, sendc,
                   flagVars, fnVars, joined, owed>>

\* `for c := range s { delete(s, c); c <- err }`: the next c is taken out of
\* s and the loop blocks in the send to it; with s empty the range is over
loopRange(s) ==
    IF s = {}
      THEN looppc' = "select" /\ sendc' = 0 /\ pend' = {}
      ELSE \E c \in s : looppc' = "send" /\ sendc' = c /\ pend' = s \ {c}

\* case err := <-errc: the goroutine of attempt a hands over its err
loopCompleted(a) ==
    /\ variant = "loop"
    /\ fnpc[a] = "sending"
    /\ looppc = "select"
    /\ fnpc' = [fnpc EXCEPT ![a] = "exited"]
    /\ IF failed(fnerr[a])
         THEN /\ busy' = busyAfterFailure
              /\ bcastErr' = fnerr[a]
              /\ loopRange(pend)
              /\ owed' = [p \in Procs |->
                            IF p \in Waiting THEN fnerr[a] ELSE owed[p]]
              /\ UNCHANGED done
         ELSE /\ done' = TRUE
              /\ looppc' = afterClose
              /\ UNCHANGED <<busy, bcastErr, sendc, pend, owed>>
    /\ UNCHANGED <<variant, callerVars, ctxDone, val, inited, flagVars,
                   fnerr, fnval, joined, early>>

\* c <- err: taken by the `err := <-errc` of c's await or unregister select
loopSend(p) ==
    /\ variant = "loop"
    /\ looppc = "send"
    /\ sendc = p
    /\ pc[p] \in {"await", "unregister"}
    /\ Return(p, Nil, bcastErr)
    /\ loopRange(pend)
    /\ UNCHANGED <<variant, ctxDone, done, val, inited, busy, bcastErr,
                   flagVars, fnVars, joined, owed>>

(***************************************************************************)
(* Init.Do, atomic-flag design.                                            *)
(***************************************************************************)
\* s := atomic.LoadUint32(&i.state)
InitDoLoad(p) ==
    /\ variant = "flag"
    /\ pc[p] = "start"
    /\ IF state = "finished"
         THEN Return(p, val, Nil)
         ELSE /\ pc' = [pc EXCEPT ![p] =
                          IF state = "uninitialized" THEN "lazyinit" ELSE "register"]
              /\ UNCHANGED <<ret, early>>
    /\ UNCHANGED <<variant, ctxDone, done, val, loopVars, flagVars, fnVars,
                   joined, owed>>

\* faulty variant: the second test of i.state under the mutex is dropped
uninitAlways(s) == TRUE

\* `if i.state == uninitialized`, under i.mu
uninit(s) == s = "uninitialized"

\* the critical section of i.mu
InitDoLazyInit(p) ==
    /\ variant = "flag"
    /\ pc[p] = "lazyinit"
    /\ IF uninit(state)
         THEN wake' = wake + 1 /\ state' = "initialized"
         ELSE UNCHANGED <<wake, state>>
    /\ pc' = [pc EXCEPT ![p] = "register"]
    /\ UNCHANGED <<variant, ret, ctxDone, done, val, loopVars, runpc, m, todo, cur,
                   fnVars, histVars>>

InitDoRegisterDone(p) ==
    /\ variant = "flag"
    /\ pc[p] = "register"
    /\ done
    /\ Return(p, val, Nil)
    /\ UNCHANGED <<variant, ctxDone, done, val, loopVars, flagVars, fnVars,
                   joined, owed>>

InitDoRegisterCtx(p) ==
    /\ variant = "flag"
    /\ pc[p] = "register"
    /\ ctxDone[p]
    /\ Return(p, Nil, CtxErr(p))
    /\ UNCHANGED <<variant, ctxDone, done, val, loopVars, flagVars, fnVars,
                   joined, owed>>

\* case <-i.wake: go i.run(errc, fn)
InitDoRegisterWake(p) ==
    /\ variant = "flag"
    /\ pc[p] = "register"
    /\ wake > 0
    /\ wake' = wake - 1
    /\ runpc' = [runpc EXCEPT ![p] = "spawned"]
    /\ joined' = [joined EXCEPT ![p] = p]
    /\ pc' = [pc EXCEPT ![p] = "await"]
    /\ UNCHANGED <<variant, ret, ctxDone, done, val, loopVars, state, m, todo, cur,
                   fnVars, owed, early>>

InitDoAwaitDone(p) ==
    /\ variant = "flag"
    /\ pc[p] = "await"
    /\ done
    /\ Return(p, val, Nil)
    /\ UNCHANGED <<variant, ctxDone, done, val, loopVars, flagVars, fnVars,
                   joined, owed>>

InitDoAwaitCtx(p) ==
    /\ variant = "flag"
    /\ pc[p] = "await"
    /\ ctxDone[p]
    /\ pc' = [pc EXCEPT ![p] = "unregister"]
    /\ UNCHANGED <<variant, ret, ctxDone, done, val, loopVars, flagVars, fnVars,
                   histVars>>

InitDoUnregisterDone(p) ==
    /\ variant = "flag"
    /\ pc[p] = "unregister"
    /\ done
    /\ Return(p, val, Nil)
    /\ UNCHANGED <<variant, ctxDone, done, val, loopVars, flagVars, fnVars,
                   joined, owed>>

(***************************************************************************)
(* Init.run.                                                               *)
(***************************************************************************)
\* faulty variant: the runner does not start registered
initialMEmpty(errc) == {}

\* m := map[chan error]struct{}{errc: struct{}{}}: the runner starts registered
initialM(errc) == {errc}

\* c := make(chan error); go func() {...}(); m := {errc}
runStart(r) ==
    /\ variant = "flag"
    /\ runpc[r] = "spawned"
    /\ fnpc' = [fnpc EXCEPT ![r] = "spawned"]
    /\ m' = [m EXCEPT ![r] = initialM(r)]
    /\ runpc' = [runpc EXCEPT ![r] = "select"]
    /\ UNCHANGED <<variant, callerVars, ctxDone, done, val, loopVars, state,
                   wake, todo, cur, fnerr, fnval, histVars>>

\* faulty variant: a received channel is only ever deleted, never added
toggleRemoveOnly(mm, c) == mm \ {c}

\* faulty variant: the unregister test is dropped: a received channel is
\* always (re-)registered
toggleAddOnly(mm, c) == mm \cup {c}

\* faulty variant: an unregister empties the map
toggleClear(mm, c) == IF c \in mm THEN {} ELSE mm \cup {c}

\* case errc := <-i.errc: the map after the channel c was received
toggle(mm, c) == IF c \in mm THEN mm \ {c} ELSE mm \cup {c}

\* p's send `i.errc <- errc` of the register select, received by run r
runRegister(r, p) ==
    /\ variant = "flag"
    /\ pc[p] = "register"
    /\ runpc[r] = "select"
    /\ m' = [m EXCEPT ![r] = toggle(m[r], p)]
    /\ joined' = [joined EXCEPT ![p] = r]
    /\ pc' = [pc EXCEPT ![p] = "await"]
    /\ UNCHANGED <<variant, ret, ctxDone, done, val, loopVars, state, wake,
                   runpc, todo, cur, fnVars, owed, early>>

\* p's send `i.errc <- errc` of the unregister select, received by run r
runUnregister(r, p) ==
    /\ variant = "flag"
    /\ pc[p] = "unregister"
    /\ runpc[r] = "select"
    /\ m' = [m EXCEPT ![r] = toggle(m[r], p)]
    /\ Return(p, Nil, CtxErr(p))
    /\ UNCHANGED <<variant, ctxDone, done, val, loopVars, state, wake, runpc,
                   todo, cur, fnVars, joined, owed>>

\* `for errc := range s { errc <- err }`: run r blocks in the send to the
\* next channel; with none left it goes on to signal the next runner
runRange(r, s) ==
    IF s = {}
      THEN /\ runpc' = [runpc EXCEPT ![r] = "signal"]
           /\ cur' = [cur EXCEPT ![r] = 0]
           /\ todo' = [todo EXCEPT ![r] = {}]
      ELSE \E c \in s :
           /\ runpc' = [runpc EXCEPT ![r] = "send"]
           /\ cur' = [cur EXCEPT ![r] = c]
           /\ todo' = [todo EXCEPT ![r] = s \ {c}]

\* case err := <-c
runCompleted(r) ==
    /\ variant = "flag"
    /\ fnpc[r] = "sending"
    /\ runpc[r] = "select"
    /\ fnpc' = [fnpc EXCEPT ![r] = "exited"]
    /\ IF failed(fnerr[r])
         THEN /\ runRange(r, m[r])
              /\ owed' = [p \in Procs |->
                            IF p \in Waiting THEN fnerr[r] ELSE owed[p]]
              /\ UNCHANGED state
         ELSE /\ state' = "finished"
              /\ runpc' = [runpc EXCEPT ![r] = "close"]
              /\ UNCHANGED <<todo, cur, owed>>
    /\ UNCHANGED <<variant, callerVars, ctxDone, done, val, loopVars, wake, m,
                   fnerr, fnval, joined, early>>

\* errc <- err: taken by the `err := <-errc` of p's await or unregister select
runSend(r, p) ==
    /\ variant = "flag"
    /\ runpc[r] = "send"
    /\ cur[r] = p
    /\ pc[p] \in {"await", "unregister"}
    /\ Return(p, Nil, fnerr[r])
    /\ runRange(r, todo[r])
    /\ UNCHANGED <<variant, ctxDone, done, val, loopVars, state, wake, m,
                   fnVars, joined, owed>>

\* i.wake <- struct{}{}; return  (wake has capacity 1)
runSignal(r) ==
    /\ variant = "flag"
    /\ runpc[r] = "signal"
    /\ wake < 1
    /\ wake' = wake + 1
    /\ runpc' = [runpc EXCEPT ![r] = "exited"]
    /\ m' = [m EXCEPT ![r] = {}]
    /\ UNCHANGED <<variant, callerVars, ctxDone, done, val, loopVars, state,
                   todo, cur, fnVars, histVars>>

\* close(i.done); return
runClose(r) ==
    /\ variant = "flag"
    /\ runpc[r] = "close"
    /\ done' = TRUE
    /\ runpc' = [runpc EXCEPT ![r] = "exited"]
    /\ m' = [m EXCEPT ![r] = {}]
    /\ UNCHANGED <<variant, callerVars, ctxDone, val, loopVars, state, wake,
                   todo, cur, fnVars, histVars>>

Next ==
    \/ \E p \in Procs : Cancel(p)
    \/ \E a \in Procs : FnCall(a)
    \/ \E a \in Procs : FnReturn(a)
    \/ \E p \in Procs : DoFastPath(p)
    \/ \E p \in Procs : lazyInit(p)
    \/ \E p \in Procs : DoRegisterDone(p)
    \/ \E p \in Procs : DoRegisterCtx(p)
    \/ \E p \in Procs : DoAwaitDone(p)
    \/ \E p \in Procs : DoAwaitCtx(p)
    \/ \E p \in Procs : DoUnregisterDone(p)
    \/ \E p \in Procs : loopJoin(p)
    \/ \E p \in Procs : loopLeave(p)
    \/ \E a \in Procs : loopCompleted(a)
    \/ \E p \in Procs : loopSend(p)
    \/ \E p \in Procs : InitDoLoad(p)
    \/ \E p \in Procs : InitDoLazyInit(p)
    \/ \E p \in Procs : InitDoRegisterDone(p)
    \/ \E p \in Procs : InitDoRegisterCtx(p)
    \/ \E p \in Procs : InitDoRegisterWake(p)
    \/ \E p \in Procs : InitDoAwaitDone(p)
    \/ \E p \in Procs : InitDoAwaitCtx(p)
    \/ \E p \in Procs : InitDoUnregisterDone(p)
    \/ \E r \in Procs : runStart(r)
    \/ \E r, p \in Procs : runRegister(r, p)
    \/ \E r, p \in Procs : runUnregister(r, p)
    \/ \E r \in Procs : runCompleted(r)
    \/ \E r, p \in Procs : runSend(r, p)
    \/ \E r \in Procs : runSignal(r)
    \/ \E r \in Procs : runClose(r)

Spec == Init /\ [][Next]_vars

(***************************************************************************)
(* Scheduling.  A goroutine that can take a step is eventually scheduled,  *)
(* and a select with a ready case proceeds.  Nothing obliges a caller to   *)
(* call Do, a context to fire or fn to return.                             *)
(***************************************************************************)
CallerStep(p) ==
    \/ lazyInit(p) \/ DoRegisterDone(p) \/ DoRegisterCtx(p) \/ DoAwaitDone(p)
    \/ DoAwaitCtx(p) \/ DoUnregisterDone(p)
    \/ loopJoin(p) \/ loopLeave(p) \/ loopSend(p)
    \/ InitDoLazyInit(p) \/ InitDoRegisterDone(p) \/ InitDoRegisterCtx(p)
    \/ InitDoRegisterWake(p) \/ InitDoAwaitDone(p) \/ InitDoAwaitCtx(p)
    \/ InitDoUnregisterDone(p)
    \/ \E r \in Procs : runRegister(r, p) \/ runUnregister(r, p) \/ runSend(r, p)

LoopStep ==
    \/ \E p \in Procs : loopJoin(p) \/ loopLeave(p) \/ loopSend(p)
    \/ \E a \in Procs : loopCompleted(a)

RunStep(r) ==
    \/ runStart(r) \/ runCompleted(r) \/ runSignal(r) \/ runClose(r)
    \/ \E p \in Procs : runRegister(r, p) \/ runUnregister(r, p) \/ runSend(r, p)

\* a step of some goroutine that is under way.  Every goroutine takes
\* finitely many steps, so that fairness to each one of them comes to this:
\* the program does not stop while one of them can take a step.
Progress ==
    \/ \E p \in Procs : CallerStep(p)
    \/ LoopStep
    \/ \E r \in Procs : RunStep(r)
    \/ \E a \in Procs : FnCall(a)

FairSpec == Spec /\ WF_vars(Progress)

(***************************************************************************)
(* Vocabulary of the properties.                                           *)
(***************************************************************************)
\* invocations of an action that are executing
Running == {a \in Procs : fnpc[a] = "running"}

\* attempts whose fn returned an error / a nil error
FailedAttempts == {a \in Procs : Finished(a) /\ fnerr[a] # Nil}
Succeeded == {a \in Procs : Finished(a) /\ fnerr[a] = Nil}

\* what attempt a ended with, as Do returns it
Outcome(a) == IF fnerr[a] = Nil THEN <<fnval[a], Nil>> ELSE <<Nil, fnerr[a]>>

\* caller p returns in this step
Returns(p) == pc[p] # "returned" /\ pc'[p] = "returned"

(***************************************************************************)
(* C1  Single-flight: in both designs at most one invocation of a          *)
(* caller-supplied action is executing at any moment, whatever the joins,  *)
(* cancellations, failed attempts and retries before it.                   *)
(***************************************************************************)
C1_SingleFlight == Cardinality(Running) <= 1

\* an invocation runs after an earlier attempt failed, with a canceled
\* caller and another waiter joined to it
C1_Witness ==
    \E a \in Procs :
        /\ fnpc[a] = "running"
        /\ FailedAttempts # {}
        /\ \E p \in Procs \ {a} : pc[p] \in {"await", "unregister"} /\ joined[p] = a
        /\ \E q \in Procs : ctxDone[q]

(***************************************************************************)
(* C2  Once the done signal has fired no action is invoked again: from a   *)
(* state with done closed no step leaves a goroutine about to call, or     *)
(* calling, an action, whatever the Do calls in progress or made later.    *)
(***************************************************************************)
C2_NoInvokeAfterDone ==
    [][done => \A a \in Procs : fnpc'[a] \notin {"spawned", "running"}
                                /\ runpc'[a] \notin {"spawned", "select"}]_vars

\* done has fired and a caller that came later, passing its own fn, has
\* returned without that fn having been called
C2_Witness ==
    /\ done
    /\ \E p \in Procs : pc[p] = "returned" /\ joined[p] = 0 /\ fnpc[p] = "none"
                        /\ ret[p][2] = Nil
    /\ \E q \in Procs : pc[q] \in {"register", "await", "unregister"}

C4_FrozenResult ==
    [][/\ done => val' = val
       /\ done' => \E w \in Procs : /\ Succeeded' = {w}
                                     /\ val' = fnval'[w] /\ val' = Val(w)
       /\ \A p \in Procs : (Returns(p) /\ ret'[p][2] = Nil) =>
             /\ Succeeded # {}
             /\ \A w \in Succeeded : ret'[p][1] = Val(w)]_vars

\* done has fired after a failed attempt had written to the slot, and a
\* caller has read the frozen value
C4_Witness ==
    /\ done
    /\ FailedAttempts # {}
    /\ \E p \in Procs : pc[p] = "returned" /\ ret[p] = <<val, Nil>> /\ val # Nil

(***************************************************************************)
(* C5  Failure fan-out: when the coordinator takes the error e of a failed *)
(* attempt, every caller that has registered and has not left (owed[p] =   *)
(* e, and e is the error of the attempt p joined) returns (nil, e), and    *)
(* none of them is left waiting.                                           *)
(***************************************************************************)
C5_FailureFanOut ==
    /\ \A p \in Procs :
          [](owed[p] # Nil =>
                /\ joined[p] # 0 /\ owed[p] = fnerr[joined[p]]
                /\ pc[p] = "returned" => ret[p] = <<Nil, owed[p]>>)
    /\ \A p \in Procs : (owed[p] # Nil) ~> (pc[p] = "returned")

\* two callers joined to one failed attempt, one of them canceled and in
\* its unregister step, have both returned its error
C5_Witness ==
    \E p, q \in Procs :
        /\ p # q /\ joined[p] = joined[q] /\ owed[p] # Nil /\ owed[q] = owed[p]
        /\ pc[p] = "returned" /\ pc[q] = "returned"
        /\ ret[p] = <<Nil, owed[p]>> /\ ret[q] = <<Nil, owed[p]>>
        /\ ctxDone[q]

(***************************************************************************)
(* C6  Failure resets: once a failed attempt has been processed and no     *)
(* attempt is in flight the coordinator is idle (loop: selecting, not      *)
(* busy, pend empty; flag: the wake token is back), and the next caller to *)
(* register starts a fresh invocation, of its own fn.                      *)
(***************************************************************************)
Quiet ==
    /\ ~done
    /\ looppc # "send"
    /\ \A a \in Procs : fnpc[a] \in {"none", "exited"}
                        /\ runpc[a] \in {"none", "exited"}

C6_FailureResets ==
    /\ []((Quiet /\ FailedAttempts # {}) =>
             /\ variant = "loop" => looppc = "select" /\ ~busy /\ pend = {}
             /\ variant = "flag" => wake = 1)
    /\ [][\A p \in Procs :
             (Quiet /\ FailedAttempts # {} /\ pc[p] = "register" /\ pc'[p] = "await")
                => (fnpc'[p] = "spawned" \/ runpc'[p] = "spawned")]_vars

\* after two failed attempts a third one, of a later caller, succeeded and
\* is memoized
C6_Witness ==
    /\ done
    /\ Cardinality(FailedAttempts) = 2
    /\ \E w \in Succeeded : val = Val(w)
                            /\ \E p \in Procs : ret[p] = <<Val(w), Nil>>

(***************************************************************************)
(* C7  As claimed: a caller whose context was canceled before the attempt  *)
(* it joined finished returns its context's error, and a joined caller     *)
(* whose context is not canceled returns the attempt's real outcome.       *)
(***************************************************************************)
C7_CanceledReturnsCtxErr ==
    [][\A p \in Procs : (Returns(p) /\ joined[p] # 0) =>
          /\ (early[p] \/ (ctxDone[p] /\ ~Finished(joined[p])))
                => ret'[p] = <<Nil, CtxErr(p)>>
          /\ ~ctxDone[p] => ret'[p] = Outcome(joined[p])]_vars

(***************************************************************************)
(* C7  As amended: a caller whose context is canceled returns its          *)
(* context's error when it returns before the attempt it joined has        *)
(* finished, and otherwise either that error or the attempt's real         *)
(* outcome; a joined caller whose context is not canceled returns the      *)
(* attempt's real outcome.                                                 *)
(***************************************************************************)
C7_CancellationIsolation ==
    \A p \in Procs : (pc[p] = "returned" /\ joined[p] # 0) =>
        /\ ~Finished(joined[p]) => ret[p] = <<Nil, CtxErr(p)>>
        /\ ctxDone[p] => \/ ret[p] = <<Nil, CtxErr(p)>>
                         \/ Finished(joined[p]) /\ ret[p] = Outcome(joined[p])
        /\ ~ctxDone[p] => Finished(joined[p]) /\ ret[p] = Outcome(joined[p])

\* of two callers joined to one attempt, the canceled one returned its
\* context's error while fn ran, the other one the attempt's outcome
C7_Witness ==
    \E p, q \in Procs :
        /\ p # q /\ joined[p] # 0 /\ joined[p] = joined[q]
        /\ pc[p] = "returned" /\ ctxDone[p] /\ ret[p] = <<Nil, CtxErr(p)>>
        /\ pc[q] = "returned" /\ ~ctxDone[q] /\ ret[q] = Outcome(joined[q])

(***************************************************************************)
(* C8  A canceled caller does not wait for the action: a Do call under way *)
(* whose context has fired eventually returns, also when fn never returns  *)
(* (no fairness is assumed of fn).                                         *)
(***************************************************************************)
C8_CanceledReturns ==
    \A p \in Procs : (ctxDone[p] /\ pc[p] # "start") ~> (pc[p] = "returned")

\* a canceled caller has returned its context's error while the fn of the
\* attempt it joined is still running
C8_Witness ==
    \E p \in Procs :
        /\ pc[p] = "returned" /\ ret[p] = <<Nil, CtxErr(p)>>
        /\ joined[p] # 0 /\ fnpc[joined[p]] = "running"

(***************************************************************************)
(* C9  Background completion after abandonment: while an attempt is in     *)
(* flight and every caller that joined it has returned, the attempt goes   *)
(* on (its goroutine only moves forward), no other runner is started, and  *)
(* a caller that registers joins it; and a Do that returns a nil error,    *)
(* or returns after done has fired with its context not canceled, returns  *)
(* the value of the attempt that succeeded, its own fn never having been   *)
(* called unless that attempt was its own.                                 *)
(***************************************************************************)
Abandoned(a) ==
    /\ fnpc[a] \in {"spawned", "running", "sending"}
    /\ \E p \in Procs : joined[p] = a
    /\ \A p \in Procs : joined[p] = a => pc[p] = "returned"

C9_BackgroundCompletion ==
    [][/\ \A a \in Procs : Abandoned(a) =>
             /\ fnpc'[a] # "none"
             /\ \A b \in Procs \ {a} : fnpc'[b] = fnpc[b] /\ runpc'[b] = runpc[b]
             /\ \A p \in Procs : (pc[p] = "register" /\ pc'[p] = "await")
                                    => joined'[p] = a
       /\ \A p \in Procs : (Returns(p) /\ (ret'[p][2] = Nil \/ (done /\ ~ctxDone[p]))) =>
             \E w \in Succeeded : /\ ret'[p] = <<Val(w), Nil>>
                                  /\ p # w => fnpc[p] = "none"]_vars

\* the attempt's trigger gave up, fn went on and succeeded, and a caller
\* that called Do after that returned the value without its fn being called
C9_Witness ==
    \E w \in Succeeded : \E q \in Procs \ {w} :
        /\ done
        /\ pc[w] = "returned" /\ ret[w] = <<Nil, CtxErr(w)>>
        /\ \A p \in Procs \ {q} : joined[p] = w => ret[p] = <<Nil, CtxErr(p)>>
        /\ pc[q] = "returned" /\ joined[q] = 0 /\ ret[q] = <<Val(w), Nil>>
        /\ fnpc[q] = "none"

(***************************************************************************)
(* C10  A Do call that joined an attempt returns once its context has      *)
(* fired or the attempt's fn has returned, and it returns one outcome,     *)
(* never changed afterwards: the frozen value and a nil error, the error   *)
(* of the attempt it joined, or its own context's error.                   *)
(***************************************************************************)
C10_JoinedReturnsOnce ==
    /\ \A p \in Procs :
          []((pc[p] = "returned" /\ joined[p] # 0) =>
                \/ \E w \in Succeeded : ret[p] = <<Val(w), Nil>>
                \/ /\ joined[p] \in FailedAttempts
                   /\ ret[p] = <<Nil, fnerr[joined[p]]>>
                \/ ctxDone[p] /\ ret[p] = <<Nil, CtxErr(p)>>)
    /\ [][\A p \in Procs : pc[p] = "returned" =>
                              pc'[p] = "returned" /\ ret'[p] = ret[p]]_vars
    /\ \A p \in Procs :
          (joined[p] # 0 /\ (ctxDone[p] \/ Finished(joined[p])))
             ~> (pc[p] = "returned")

\* three callers joined attempts and returned the three kinds of outcome
C10_Witness ==
    \E p, q, r \in Procs :
        /\ pc[p] = "returned" /\ pc[q] = "returned" /\ pc[r] = "returned"
        /\ joined[p] # 0 /\ joined[q] # 0 /\ joined[r] # 0
        /\ ret[p][2] = Nil
        /\ ret[q] = <<Nil, CtxErr(q)>>
        /\ ret[r] = <<Nil, fnerr[joined[r]]>> /\ fnerr[joined[r]] # Nil

(***************************************************************************)
(* Vocabulary of the waiter sets.                                          *)
(***************************************************************************)
\* the channels the coordinator holds: the loop's pend, the maps of the run
\* goroutines
Members == pend \cup UNION {m[r] : r \in Procs}

\* an outcome is on its way to p: done is closed, or the coordinator is
\* blocked in the send of an error on p's channel
Delivering(p) == done \/ sendc = p \/ \E r \in Procs : cur[r] = p

\* p's leave request was accepted: p had joined an attempt and returned its
\* own context's error
Left(p) == pc[p] = "returned" /\ joined[p] # 0 /\ ret[p] = <<Nil, CtxErr(p)>>

(***************************************************************************)
(* C11  Leave/delivery race: a caller in its unregister step ends in one   *)
(* of two ways: it returns the outcome that was being delivered to it      *)
(* (the error the coordinator is sending on its channel, or the frozen     *)
(* value once done has fired), or the coordinator accepts its leave, takes *)
(* its channel out of the waiter set, and it returns its own context's     *)
(* error.  After that the coordinator holds its channel nowhere and never  *)
(* sends on it.                                                            *)
(***************************************************************************)
C11_LeaveOrDelivery ==
    /\ [][\A p \in Procs : (pc[p] = "unregister" /\ Returns(p)) =>
             \/ /\ ret'[p] = <<Nil, CtxErr(p)>>
                /\ ~Delivering(p)
                /\ p \in Members /\ p \notin Members'
             \/ /\ Delivering(p)
                /\ Finished(joined[p])
                /\ ret'[p] = Outcome(joined[p])]_vars
    /\ [](\A p \in Procs : Left(p) =>
             /\ p \notin Members /\ sendc # p
             /\ \A r \in Procs : cur[r] # p /\ p \notin todo[r])

\* the race: the coordinator is blocked in the send of an error to a
\* caller that is in its unregister step, while the leave of another caller
\* of the same attempt was accepted earlier
C11_Witness ==
    \E p, q \in Procs :
        /\ p # q /\ joined[p] = joined[q]
        /\ pc[p] = "unregister" /\ (sendc = p \/ \E r \in Procs : cur[r] = p)
        /\ Left(q)

C13_FastPath ==
    [][\A p \in Procs : (done /\ pc[p] = "start" /\ pc'[p] # "start") =>
          /\ pc'[p] = "returned"
          /\ ret'[p] = <<val, Nil>>
          /\ UNCHANGED <<done, val, loopVars, flagVars, fnVars>>]_vars

(***************************************************************************)
(* Vocabulary of the attempts.                                             *)
(***************************************************************************)
\* caller p's register step is taken by the coordinator
Registers(p) == pc[p] = "register" /\ pc'[p] = "await"

\* the attempts under way (the coordinator is Running): a goroutine is
\* about to call fn, is calling it or is handing over what it returned, or
\* a run goroutine is there to start one
Live == {a \in Procs : \/ fnpc[a] \in {"spawned", "running", "sending"}
                       \/ runpc[a] \in {"spawned", "select"}}

\* the callers whose register step took the coordinator from Idle to Running
Triggers == {p \in Procs : joined[p] = p}

\* the coordinator goes from Idle to Running in this step
IdleToRunning ==
    \/ variant = "loop" /\ ~busy /\ busy'
    \/ variant = "flag" /\ wake = 1 /\ wake' = 0

\* the runners started in this step
Started ==
    IF variant = "loop"
      THEN {a \in Procs : fnpc[a] = "none" /\ fnpc'[a] = "spawned"}
      ELSE {a \in Procs : runpc[a] = "none" /\ runpc'[a] = "spawned"}

(***************************************************************************)
(* C14  Deduplication: a caller that registers while an attempt is under   *)
(* way is added to that attempt's waiter set and no runner is started;     *)
(* runners are started one per Idle-to-Running transition, each calls one  *)
(* fn, that of the caller whose register step made the transition, and the *)
(* fn of a caller that joined a running attempt is never called.           *)
(***************************************************************************)
C14_Deduplication ==
    /\ [][/\ \A p \in Procs : (Registers(p) /\ Live # {}) =>
                /\ fnpc' = fnpc /\ runpc' = runpc
                /\ joined'[p] \in Live /\ joined'[p] # p
                /\ p \notin Members /\ p \in Members'
          /\ Cardinality(Started) = IF IdleToRunning THEN 1 ELSE 0
          /\ \A p \in Procs : p \in Started <=> (Registers(p) /\ Live = {})
          /\ \A a \in Procs : (fnpc[a] = "none" /\ fnpc'[a] # "none") =>
                /\ joined'[a] = a
                /\ variant = "flag" => runpc[a] = "spawned" /\ runpc'[a] = "select"
         ]_vars
    /\ [](/\ {a \in Procs : fnpc[a] # "none" \/ runpc[a] # "none"} = Triggers
          /\ \A p \in Procs : joined[p] \notin {0, p} =>
                fnpc[p] = "none" /\ runpc[p] = "none")

\* two callers have joined the attempt of a third one while its fn runs,
\* after an earlier attempt of another trigger: their fn was not called
C14_Witness ==
    \E a, p, q \in Procs :
        /\ p # q /\ p # a /\ q # a
        /\ fnpc[a] = "running"
        /\ joined[p] = a /\ joined[q] = a
        /\ pc[p] = "await" /\ pc[q] = "await"
        /\ p \in Members /\ q \in Members
        /\ fnpc[p] = "none" /\ fnpc[q] = "none"

(***************************************************************************)
(* C15  Cancellation is local: the step in which the coordinator takes a   *)
(* caller's leave removes that caller's channel from the waiter set and    *)
(* nothing else: the running flag, the position of the coordinator, the    *)
(* goroutine calling fn, the frozen slot, the done signal and the          *)
(* membership and position of every other caller are unchanged; the set    *)
(* of attempts under way is the same after the step, also when the waiter  *)
(* set has become empty.                                                   *)
(***************************************************************************)
LeaveTaken(p) ==
    pc[p] = "unregister" /\ Returns(p) /\ ret'[p] = <<Nil, CtxErr(p)>>

C15_CancellationIsLocal ==
    [][\A p \in Procs : LeaveTaken(p) =>
          /\ pend' = pend \ {p}
          /\ \A r \in Procs : m'[r] = m[r] \ {p}
          /\ UNCHANGED <<busy, looppc, bcastErr, sendc, inited>>
          /\ UNCHANGED <<state, wake, runpc, todo, cur>>
          /\ UNCHANGED <<fnVars, val, done, ctxDone>>
          /\ Live' = Live /\ Live # {}
          /\ \A q \in Procs \ {p} : pc'[q] = pc[q] /\ ret'[q] = ret[q]]_vars

\* the trigger of an attempt and a caller that joined it have both left:
\* the waiter set is empty and fn is still running
C15_Witness ==
    \E a, p \in Procs :
        /\ p # a
        /\ fnpc[a] = "running"
        /\ Left(a) /\ joined[a] = a
        /\ Left(p) /\ joined[p] = a
        /\ Members = {}

(***************************************************************************)
(* C16  A failure does not poison later attempts: an attempt's error is    *)
(* returned only by callers that joined that attempt; a caller never       *)
(* changes the attempt it joined; and a caller that registers after the    *)
(* coordinator has finished with a failed attempt is joined to an attempt  *)
(* that is under way (one it triggers, or one it finds running), never to  *)
(* the failed one, so that the error it may return is that later           *)
(* attempt's.                                                              *)
(***************************************************************************)
\* the coordinator has finished processing the failure of attempt a
Processed(a) ==
    /\ fnpc[a] = "exited" /\ fnerr[a] # Nil
    /\ looppc # "send"
    /\ runpc[a] \in {"none", "exited"}

C16_FailureDoesNotPoison ==
    /\ [][\A p \in Procs :
             /\ Registers(p) =>
                   /\ joined'[p] \in Live'
                   /\ \A a \in Procs : Processed(a) => joined'[p] # a
             /\ joined[p] # 0 => joined'[p] = joined[p]
             /\ (Returns(p) /\ ret'[p][2][1] = "fail") =>
                   /\ joined[p] # 0 /\ ~Processed(joined[p])
                   /\ ret'[p] = <<Nil, Fail(joined[p])>>]_vars
    /\ [](\A p \in Procs : \A a \in Procs :
             (pc[p] = "returned" /\ ret[p][2] = Fail(a)) => joined[p] = a)

\* attempt a failed and its error went to its caller; a later attempt b
\* failed too, and a caller that joined b returned b's error, not a's
C16_Witness ==
    \E a, b, p \in Procs :
        /\ a # b /\ p # a /\ p # b
        /\ Processed(a) /\ pc[a] = "returned" /\ ret[a] = <<Nil, Fail(a)>>
        /\ Processed(b) /\ joined[p] = b
        /\ pc[p] = "returned" /\ ret[p] = <<Nil, Fail(b)>>

(***************************************************************************)
(* Vocabulary of the broadcast.                                            *)
(***************************************************************************)
\* the waiter set as the coordinator holds it: pend while the loop
\* goroutine lives, the map m of each run goroutine
WaiterSet ==
    IF variant = "loop"
      THEN IF looppc \in {"select", "send"} THEN pend ELSE {}
      ELSE UNION {m[r] : r \in Procs}

\* the channels the coordinator may still send an error on: the waiter set
\* while it selects, and in a broadcast the channel of the blocked send and
\* those the range loop has yet to visit
ToServe ==
    IF variant = "loop"
      THEN WaiterSet \cup ({sendc} \ {0})
      ELSE UNION {IF runpc[r] \in {"send", "signal"}
                    THEN todo[r] \cup ({cur[r]} \ {0})
                    ELSE m[r] : r \in Procs}

(***************************************************************************)
(* C17  As claimed: in every reachable state each channel in the waiter    *)
(* set belongs to a Do call that is blocked in its await or unregister     *)
(* step, never to a call that has returned or never registered.            *)
(***************************************************************************)
C17_WaitersAreBlocked ==
    \A c \in WaiterSet : pc[c] \in {"await", "unregister"}

(***************************************************************************)
(* C17  As amended: each channel of the waiter set that the coordinator    *)
(* has yet to send to belongs to a Do call blocked in its await or         *)
(* unregister step, and every channel of the waiter set to a call that     *)
(* registered and has not left (the atomic-flag run keeps in its map the   *)
(* channels its broadcast has served, until it returns); so every send of  *)
(* the failure broadcast completes, and the coordinator gets back to       *)
(* accepting requests (loop: its select; flag: run returns, the wake token *)
(* put back).                                                              *)
(***************************************************************************)
C17_CoordinatorNeverBlocks ==
    /\ [](\A c \in ToServe : pc[c] \in {"await", "unregister"})
    /\ [](\A c \in WaiterSet : joined[c] # 0 /\ ~Left(c))
    /\ (looppc = "send") ~> (looppc = "select" /\ pend = {})
    /\ \A r \in Procs : (runpc[r] = "send") ~> (runpc[r] = "exited")

\* a failure broadcast is under way: one caller was served and returned
\* the error, the coordinator is blocked in the send to a canceled caller
\* in its unregister step
C17_Witness ==
    \E p, q \in Procs :
        /\ p # q /\ joined[p] = joined[q] /\ joined[p] # 0
        /\ pc[p] = "returned" /\ ret[p] = <<Nil, Fail(joined[p])>>
        /\ pc[q] = "unregister"
        /\ (sendc = q \/ \E r \in Procs : cur[r] = q)

(***************************************************************************)
(* C19  Wake-token conservation (atomic-flag design).  From initialization *)
(* until success exactly one of these holds: the wake token is in the      *)
(* channel, or a caller has taken it and its run goroutine is pending or   *)
(* alive.  The token is put back by the run goroutine of a failed attempt  *)
(* once its broadcast is complete (every channel of its map has been       *)
(* served), once per failed attempt, and never after success.  So there    *)
(* are never two run goroutines, and after a failure the token is there    *)
(* for a next caller.                                                      *)
(***************************************************************************)
\* the run goroutines that hold the token: pending (go statement executed)
\* or alive and not yet past `i.wake <- struct{}{}`
TokenHolders == {r \in Procs : runpc[r] \in {"spawned", "select", "send", "signal"}}

C19_WakeTokenConservation ==
    /\ [](variant = "flag" =>
             /\ wake \in {0, 1}
             /\ state = "uninitialized" =>
                   wake = 0 /\ \A r \in Procs : runpc[r] = "none"
             /\ state = "initialized" => wake + Cardinality(TokenHolders) = 1
             /\ state = "finished" =>
                   /\ wake = 0 /\ TokenHolders = {}
                   /\ Cardinality({r \in Procs : runpc[r] = "close"}) <= 1
             /\ Cardinality({r \in Procs : runpc[r] \notin {"none", "exited"}}) <= 1)
    /\ [][(variant = "flag" /\ state # "uninitialized" /\ wake' > wake) =>
             \E r \in Procs :
                /\ runpc[r] = "signal" /\ runpc'[r] = "exited"
                /\ fnpc[r] = "exited" /\ fnerr[r] # Nil
                /\ state = "initialized" /\ ~done
                /\ wake = 0 /\ wake' = 1
                /\ cur[r] = 0 /\ todo[r] = {}
                /\ \A c \in m[r] : pc[c] = "returned" /\ ret[c] = <<Nil, fnerr[r]>>
         ]_vars
    /\ [][\A r \in Procs : runpc[r] = "exited" => runpc'[r] = "exited"]_vars
    /\ \A r \in Procs :
          (variant = "flag" /\ runpc[r] # "none" /\ fnpc[r] = "sending" /\ fnerr[r] # Nil)
             ~> (runpc[r] = "exited" /\ state = "initialized")

\* after a failed attempt the token was put back and taken again: the run
\* goroutine of a next caller is alive, a third caller is registered with it
C19_Witness ==
    \E r1, r2, p \in Procs :
        /\ r1 # r2 /\ p # r1 /\ p # r2
        /\ variant = "flag"
        /\ runpc[r1] = "exited" /\ fnerr[r1] # Nil
        /\ runpc[r2] = "select" /\ wake = 0
        /\ p \in m[r2]

(***************************************************************************)
(* C20  As claimed (atomic-flag design, join and leave being the same      *)
(* message): a leave is received by the run goroutine that has the caller  *)
(* in its map, which deletes it; a registration is received by a run       *)
(* goroutine that does not have the caller, which adds it; and no          *)
(* caller's channel is ever in a map after that caller's Do has returned.  *)
(***************************************************************************)
C20_NoChannelLeftBehind ==
    /\ [][\A p \in Procs : (variant = "flag" /\ LeaveTaken(p)) =>
             \E r \in Procs : /\ runpc[r] = "select" /\ joined[p] = r
                              /\ p \in m[r] /\ m'[r] = m[r] \ {p}]_vars
    /\ [][\A p \in Procs : (variant = "flag" /\ Registers(p) /\ wake' = wake) =>
             \E r \in Procs : /\ runpc[r] = "select" /\ joined'[p] = r
                              /\ p \notin m[r] /\ m'[r] = m[r] \cup {p}]_vars
    /\ [](variant = "flag" =>
             \A r \in Procs : \A c \in m[r] : pc[c] # "returned")

(***************************************************************************)
(* C20  As amended: a leave is received by the run goroutine that has the  *)
(* caller in its map, which deletes it; a registration is received by a    *)
(* run goroutine that does not have the caller, which adds it; a run       *)
(* goroutine that can still receive on errc has in its map only callers    *)
(* blocked in await or unregister that it registered; a returned caller's  *)
(* channel is in a map only during that run's failure broadcast, after it  *)
(* was served; and no channel passes from one run goroutine to the next.   *)
(***************************************************************************)
C20_LeaveIsNeverARegistration ==
    /\ [][\A p \in Procs : (variant = "flag" /\ LeaveTaken(p)) =>
             \E r \in Procs : /\ runpc[r] = "select" /\ joined[p] = r
                              /\ p \in m[r] /\ m'[r] = m[r] \ {p}]_vars
    /\ [][\A p \in Procs : (variant = "flag" /\ Registers(p) /\ wake' = wake) =>
             \E r \in Procs : /\ runpc[r] = "select" /\ joined'[p] = r
                              /\ p \notin m[r] /\ m'[r] = m[r] \cup {p}]_vars
    /\ [](variant = "flag" => \A r \in Procs :
             /\ \A c \in m[r] : joined[c] = r
             /\ runpc[r] \in {"spawned", "select", "close"} =>
                   \A c \in m[r] : pc[c] \in {"await", "unregister"}
             /\ \A c \in m[r] : pc[c] = "returned" =>
                   /\ runpc[r] \in {"send", "signal"}
                   /\ ret[c] = <<Nil, fnerr[r]>>
                   /\ c \notin todo[r] /\ cur[r] # c
             /\ runpc[r] \in {"none", "exited"} => m[r] = {})

\* a first run goroutine failed and is gone; the trigger of the next one
\* and a caller registered with it were canceled and their leaves taken by
\* it: its map is empty and its fn still running
C20_Witness ==
    \E r1, r2, p \in Procs :
        /\ r1 # r2 /\ p # r1 /\ p # r2
        /\ variant = "flag"
        /\ runpc[r1] = "exited" /\ fnerr[r1] # Nil
        /\ runpc[r2] = "select" /\ fnpc[r2] = "running"
        /\ Left(r2) /\ Left(p) /\ joined[p] = r2
        /\ m[r2] = {}

(***************************************************************************)
(* The two designs seen from outside.  ObsState is what a state of either  *)
(* design shows of the Do calls, the fn goroutines and the coordinator,    *)
(* with the correspondence: loop Idle (selecting, not busy) = wake token   *)
(* available; loop Running (selecting, busy) = a run goroutine pending or  *)
(* selecting; loop sending = run in its broadcast; loop exited = state     *)
(* finished.  Steps that only get a goroutine under way (once.Do, the      *)
(* locked section, the start of run, its wake send, its close of done      *)
(* after the state was stored) do not show.                                *)
(***************************************************************************)
\* the run goroutine that holds the coordinator's role (0: none)
ActiveRun ==
    IF \E r \in Procs : runpc[r] \in {"spawned", "select", "send"}
      THEN CHOOSE r \in Procs : runpc[r] \in {"spawned", "select", "send"}
      ELSE 0

ObsState ==
    LET ar == ActiveRun IN
    [pc |-> [p \in Procs |->
               IF pc[p] \in {"once", "lazyinit", "register"} THEN "enter" ELSE pc[p]],
     ret |-> ret,
     ctxDone |-> ctxDone,
     val |-> val,
     fnpc |-> [a \in Procs |-> IF runpc[a] = "spawned" THEN "spawned" ELSE fnpc[a]],
     fnerr |-> fnerr,
     fnval |-> fnval,
     done |-> IF variant = "loop" THEN done ELSE state = "finished",
     ph |-> IF variant = "loop"
              THEN CASE looppc = "none" -> "idle"
                     [] looppc = "exited" -> "finished"
                     [] looppc = "send" -> "send"
                     [] OTHER -> IF busy THEN "running" ELSE "idle"
              ELSE CASE state = "finished" -> "finished"
                     [] ar = 0 -> "idle"
                     [] OTHER -> IF runpc[ar] = "send" THEN "send" ELSE "running",
     W |-> IF variant = "loop"
             THEN IF looppc \in {"select", "send"} THEN pend ELSE {}
             ELSE IF state = "finished" \/ ar = 0 THEN {}
                  ELSE CASE runpc[ar] = "spawned" -> {ar}
                         [] runpc[ar] = "select" -> m[ar]
                         [] OTHER -> todo[ar],
     to |-> IF variant = "loop"
              THEN IF looppc = "send" THEN sendc ELSE 0
              ELSE IF ar # 0 /\ runpc[ar] = "send" THEN cur[ar] ELSE 0,
     err |-> IF variant = "loop"
               THEN IF looppc = "send" THEN bcastErr ELSE Nil
               ELSE IF ar # 0 /\ runpc[ar] = "send" THEN fnerr[ar] ELSE Nil]

\* what a Do call, an fn goroutine or the coordinator can be seen to do:
\* <<kind, who, choice>>
ObsLabels ==
    {<<k, p, 0>> : k \in {"Cancel", "FnCall", "Start", "RegisterDone",
                          "RegisterCtx", "Join", "AwaitDone", "AwaitCtx",
                          "UnregisterDone", "Leave"}, p \in Procs}
    \cup UNION {{<<"FnReturn", a, res>> : res \in FnResults(a)} : a \in Procs}
    \cup {<<k, p, c>> : k \in {"Completed", "Send"}, p \in Procs, c \in 0..NumCallers}

ObsReturn(s, p, v, e) == [s EXCEPT !.pc[p] = "returned", !.ret[p] = <<v, e>>]

\* the range loop of the broadcast moves on to c (0: no channel is left)
ObsRange(s, c) ==
    IF c = 0
      THEN [s EXCEPT !.ph = "idle", !.to = 0, !.W = {}, !.err = Nil]
      ELSE [s EXCEPT !.ph = "send", !.to = c, !.W = s.W \ {c}]

RangeChoice(s, c) == (c = 0 /\ s.W = {}) \/ c \in s.W

ObsGuard(s, l) ==
    LET k == l[1]  x == l[2]  y == l[3] IN
    CASE k = "Cancel" -> s.pc[x] # "returned" /\ ~s.ctxDone[x]
      [] k = "FnCall" -> s.fnpc[x] = "spawned"
      [] k = "FnReturn" -> s.fnpc[x] = "running"
      [] k = "Start" -> s.pc[x] = "start"
      [] k = "RegisterDone" -> s.pc[x] = "enter" /\ s.done
      [] k = "RegisterCtx" -> s.pc[x] = "enter" /\ s.ctxDone[x]
      [] k = "Join" -> s.pc[x] = "enter" /\ s.ph \in {"idle", "running"}
      [] k = "AwaitDone" -> s.pc[x] = "await" /\ s.done
      [] k = "AwaitCtx" -> s.pc[x] = "await" /\ s.ctxDone[x]
      [] k = "UnregisterDone" -> s.pc[x] = "unregister" /\ s.done
      [] k = "Leave" -> s.pc[x] = "unregister" /\ s.ph = "running"
      [] k = "Completed" -> /\ s.ph = "running" /\ s.fnpc[x] = "sending"
                            /\ IF s.fnerr[x] = Nil THEN y = 0 ELSE RangeChoice(s, y)
      [] k = "Send" -> /\ s.ph = "send" /\ s.to = x
                       /\ s.pc[x] \in {"await", "unregister"}
                       /\ RangeChoice(s, y)

ObsEffect(s, l) ==
    LET k == l[1]  x == l[2]  y == l[3] IN
    CASE k = "Cancel" -> [s EXCEPT !.ctxDone[x] = TRUE]
      [] k = "FnCall" -> [s EXCEPT !.fnpc[x] = "running"]
      [] k = "FnReturn" -> [s EXCEPT !.fnpc[x] = "sending", !.val = y[1],
                                     !.fnval[x] = y[1], !.fnerr[x] = y[2]]
      [] k = "Start" -> IF s.done THEN ObsReturn(s, x, s.val, Nil)
                                  ELSE [s EXCEPT !.pc[x] = "enter"]
      [] k \in {"RegisterDone", "AwaitDone", "UnregisterDone"} ->
            ObsReturn(s, x, s.val, Nil)
      [] k = "RegisterCtx" -> ObsReturn(s, x, Nil, CtxErr(x))
      [] k = "Join" ->
            IF s.ph = "idle"
              THEN [s EXCEPT !.pc[x] = "await", !.ph = "running",
                             !.W = {x}, !.fnpc[x] = "spawned"]
              ELSE [s EXCEPT !.pc[x] = "await", !.W = s.W \cup {x}]
      [] k = "AwaitCtx" -> [s EXCEPT !.pc[x] = "unregister"]
      [] k = "Leave" -> ObsReturn([s EXCEPT !.W = s.W \ {x}], x, Nil, CtxErr(x))
      [] k = "Completed" ->
            IF s.fnerr[x] = Nil
              THEN [s EXCEPT !.fnpc[x] = "exited", !.ph = "finished",
                             !.done = TRUE, !.W = {}]
              ELSE ObsRange([s EXCEPT !.fnpc[x] = "exited", !.err = s.fnerr[x]], y)
      [] k = "Send" -> ObsRange(ObsReturn(s, x, Nil, s.err), y)

\* no step that does not show is pending
Quiescent ==
    /\ \A p \in Procs : pc[p] \notin {"once", "lazyinit"}
    /\ \A r \in Procs : runpc[r] \notin {"spawned", "signal", "close"}

\* a step of either design as it shows: nothing, or one thing one Do call,
\* one fn goroutine or the coordinator can be seen to do
ObsStep ==
    \/ ObsState' = ObsState
    \/ \E l \in ObsLabels :
          ObsGuard(ObsState, l) /\ ObsState' = ObsEffect(ObsState, l)

(***************************************************************************)
(* C18 (observational equivalence of the designs): the atomic-flag and the *)
(* channel-loop design allow the same return values per Do call and the    *)
(* same fn invocations, related by loop Idle = wake token available, loop  *)
(* Running = a run goroutine alive, loop exited = state finished.  Stated  *)
(* through the common view ObsState: every step of either design shows as  *)
(* one and the same kind of observable step (or not at all), and whenever  *)
(* no hidden step is pending, each observable step that the view allows    *)
(* can be taken by the design at hand.  The two halves make each design    *)
(* simulate the other through the view.                                    *)
(***************************************************************************)
C18_ObservationalEquivalence ==
    /\ [][ObsStep]_vars
    /\ [](Quiescent => \A l \in ObsLabels :
             ObsGuard(ObsState, l) =>
               ENABLED (Next /\ ObsState' = ObsEffect(ObsState, l)))
====
